---- MODULE Spec2Model ----
(***************************************************************************)
(* PollHub backend: the poll voting and result-consistency engine.         *)
(*                                                                         *)
(* One poll document (models/Poll.js), the vote ledger (models/Vote) and   *)
(* the users' vote histories (User.votedPolls), operated on by concurrent  *)
(* request handlers of routes/votes.js.  Every handler is split at its     *)
(* awaits on the database: what runs between two awaits is one step.       *)
(*                                                                         *)
(* Document.save() is Mongoose's: it writes only the modified paths and,   *)
(* when a modified path lies inside an array (options.<i>.votes,           *)
(* options.<i>.voters) or replaces an array, it adds the version key __v   *)
(* to the update's filter and increments it; an update that matches no     *)
(* document is reported as a VersionError.                                 *)
(***************************************************************************)
EXTENDS Integers, Sequences, FiniteSets, TLC

\* ---------------------------------------------------------------- bounds
NUsers == 2
NOpt == 2
NReq == 1
NCast == 2
MaxOps == 4
MaxQuota == 2
MaxTime == 3

Users == 1..NUsers
Opt == 0..(NOpt - 1)
Req == 1..NReq
CastReq == 1..NCast
Slots == Req \cup CastReq
Roles == {"voter", "admin"}
Viewers == Roles \cup {"anonymous"}

VARIABLES
  poll,      \* the stored Poll document
  ledger,    \* the stored Vote documents: records [id, userId, optionIndex]
  votedPolls,\* per user: number of votedPolls entries for this poll
  now,       \* the clock read by new Date()
  nextVote,  \* next Vote _id
  ops,       \* number of requests accepted so far
  req,       \* per request slot: the handler's position and locals
  trk,       \* observer of "a cast immediately followed by its retraction"
  users      \* the stored User documents: records [role, isActive]

vars == <<poll, ledger, votedPolls, now, nextVote, ops, req, trk, users>>

\* ------------------------------------------------------------ pure parts
RECURSIVE SumOver(_, _)
SumOver(f, S) ==
  IF S = {} THEN 0
  ELSE LET x == CHOOSE y \in S : TRUE IN f[x] + SumOver(f, S \ {x})

Max0NoFloor(n) == n

\* votes.js 241, 250, 264: Math.max(0, n)
Max0(n) == IF n < 0 THEN 0 ELSE n

includes(arr, u) == \E k \in 1..Len(arr) : arr[k] = u

filterOut(arr, u) == SelectSeq(arr, LAMBDA x : x # u)

Distinct(arr) == {arr[k] : k \in 1..Len(arr)}

isActiveStatusOnly(d, t) == d.status = "active"

\* Poll.js 163-168: virtual isActive
isActive(d, t) == d.status = "active" /\ d.startDate <= t /\ d.endDate > t

\* Poll.js 210-212: voter records of the user over all options
userVoteCount(d, u) == SumOver([i \in Opt |-> d.voters[i][u]], Opt)

\* Poll.js 204-219
canUserVote(d, u, t) ==
  IF ~isActive(d, t) THEN "Poll is not active"
  ELSE IF userVoteCount(d, u) >= d.maxVotesPerUser
       THEN "Maximum votes per user reached"
       ELSE "ok"

\* Poll.js 189-201: pre('save') hook
preSave(d, t) ==
  IF d.status = "active"
  THEN IF t < d.startDate THEN [d EXCEPT !.status = "draft"]
       ELSE IF t > d.endDate THEN [d EXCEPT !.status = "completed"]
       ELSE d
  ELSE d

\* Poll.js 232-243: the in-memory mutation of addVote
addVote(d, u, i) ==
  LET d1 == [d EXCEPT !.votes[i] = @ + 1,
                      !.voters[i][u] = @ + 1,
                      !.totalVotes = @ + 1]
  IN IF ~includes(d.votedUsers, u)
     THEN [d1 EXCEPT !.votedUsers = Append(@, u), !.uniqueVoters = @ + 1]
     ELSE d1

\* the filter of a versioned save: the stored document still has the __v
\* that was loaded
versionOkNoCheck(db, snap) == db.exists

versionOk(db, snap) == db.exists /\ db.v = snap.v

saveAddVoteNoInc(db, snap, loc, u, i) ==
  [db EXCEPT !.votes[i] = loc.votes[i],
             !.voters[i][u] = @ + 1,
             !.totalVotes = loc.totalVotes,
             !.votedUsers = IF includes(snap.votedUsers, u) THEN @ ELSE Append(@, u),
             !.uniqueVoters = IF includes(snap.votedUsers, u) THEN @ ELSE loc.uniqueVoters]

\* Poll.js 245: this.save() of addVote, as the update it sends: $set of the
\* changed numbers, $push of the new array elements, $inc of __v
saveAddVote(db, snap, loc, u, i) ==
  LET pushed == Len(loc.votedUsers) > Len(snap.votedUsers)
  IN [db EXCEPT !.votes[i] = loc.votes[i],
                !.voters[i][u] = @ + 1,
                !.totalVotes = loc.totalVotes,
                !.votedUsers = IF pushed THEN Append(@, u) ELSE @,
                !.uniqueVoters = IF pushed THEN loc.uniqueVoters ELSE @,
                !.status = IF loc.status # snap.status THEN loc.status ELSE @,
                !.v = @ + 1]

\* votes.js 240-250, 260-265: the in-memory mutation of the moderation
\* delete; the voters filter drops every record of that user on the option
retractVote(d, u, i, others) ==
  LET d1 == IF i \in Opt
            THEN [d EXCEPT !.votes[i] = Max0(@ - 1), !.voters[i][u] = 0]
            ELSE d
      d2 == [d1 EXCEPT !.totalVotes = Max0(@ - 1)]
  IN IF others = 0
     THEN [d2 EXCEPT !.votedUsers = filterOut(@, u),
                     !.uniqueVoters = Max0(@ - 1)]
     ELSE d2

\* which modified paths make save() filter on __v / increment __v
versionWhere(snap, loc) ==
  loc.votes # snap.votes \/ loc.voters # snap.voters
    \/ loc.votedUsers # snap.votedUsers

versionInc(snap, loc) ==
  loc.voters # snap.voters \/ loc.votedUsers # snap.votedUsers

\* votes.js 267: poll.save() of the moderation delete, as the update it
\* sends: $set of every modified path, arrays written whole
savePoll(db, snap, loc) ==
  [db EXCEPT
     !.votes = [i \in Opt |-> IF loc.votes[i] # snap.votes[i]
                              THEN loc.votes[i] ELSE db.votes[i]],
     !.voters = [i \in Opt |-> IF loc.voters[i] # snap.voters[i]
                               THEN loc.voters[i] ELSE db.voters[i]],
     !.totalVotes = IF loc.totalVotes # snap.totalVotes THEN loc.totalVotes ELSE @,
     !.votedUsers = IF loc.votedUsers # snap.votedUsers THEN loc.votedUsers ELSE @,
     !.uniqueVoters = IF loc.uniqueVoters # snap.uniqueVoters
                      THEN loc.uniqueVoters ELSE @,
     !.status = IF loc.status # snap.status THEN loc.status ELSE @,
     !.v = IF versionInc(snap, loc) THEN @ + 1 ELSE @]

\* Vote.countDocuments({pollId, userId, _id: {$ne: voteId}})
userOtherVotes(L, u, vid) == Cardinality({x \in L : x.userId = u /\ x.id # vid})

validOptionOffByOne(d, i) == ~(i < 0 \/ i > NOpt)

\* votes.js 33: the option index is inside the poll's option list
validOption(d, i) == ~(i < 0 \/ i >= NOpt)

\* votes.js 66, 72: the totalVotes put into new_vote and poll_updated, read
\* from the document addVote has already incremented
emittedTotalVotes(loc) == loc.totalVotes + 1

\* Poll.js 171-173: virtual hasEnded
hasEnded(d, t) == t > d.endDate

\* part_002 354-358
canViewResults(d, viewer, u, t) ==
  \/ hasEnded(d, t)
  \/ d.showResultsBeforeEnd
  \/ viewer # "anonymous" /\ includes(d.votedUsers, u) /\ d.showResultsAfterVoting
  \/ viewer = "admin"

\* Poll.js 262: the status field of getResults
getResultsStatus(d, t) == d.status

\* part_002 263-267: Poll.findByIdAndUpdate(id, req.body) with an options
\* field: the option list is replaced by new options (votes 0, no voters)
updateOptions(db) ==
  [db EXCEPT !.votes = [i \in Opt |-> 0],
             !.voters = [i \in Opt |-> [u \in Users |-> 0]],
             !.optionsRev = @ + 1]

\* Number.prototype.toFixed(2) with truncation in place of rounding
toFixed2Floor(num, den) ==
  LET h == (10000 * num) \div den
  IN [str |-> TRUE, int |-> h \div 100, frac |-> h % 100]

\* Poll.js 253: ((votes / totalVotes) * 100).toFixed(2), a string with two
\* decimals, the nearest to the quotient (the larger on a tie)
toFixed2(num, den) ==
  LET h == (20000 * num + den) \div (2 * den)
  IN [str |-> TRUE, int |-> h \div 100, frac |-> h % 100]

\* Poll.js 253: the number 0 of the other branch
NumberZero == [str |-> FALSE, int |-> 0, frac |-> 0]

\* Poll.js 250-254: the percentage of one option in getResults
percentage(d, i) ==
  IF d.totalVotes > 0 THEN toFixed2(d.votes[i], d.totalVotes) ELSE NumberZero

\* votes.js 62-63: the voterName field of the new_vote event, req.user.name;
\* a user's name is modelled by the user's id, 0 is no name
emittedVoterName(u) == u

\* votes.js 143-154: one row of the per-poll vote listing; voter 0 is the
\* string 'Anonymous'
voteDetails(x) ==
  [id |-> x.id, voter |-> IF x.isAnonymous THEN 0 ELSE x.userId,
   optionIndex |-> x.optionIndex, isAnonymous |-> x.isAnonymous]

\* server.js 317-320
hasVotedForPoll(n) == n > 0

\* Vote.countDocuments({pollId, userId})
LedgerCount(u) == Cardinality({x \in ledger : x.userId = u})

Counters(d) == <<d.totalVotes, d.uniqueVoters, d.votes>>

\* ---------------------------------------------------------------- state
AbsentPoll ==
  [exists |-> FALSE, status |-> "active", startDate |-> 1,
   endDate |-> MaxTime - 1, maxVotesPerUser |-> 1,
   votes |-> [i \in Opt |-> 0],
   voters |-> [i \in Opt |-> [u \in Users |-> 0]],
   totalVotes |-> 0, uniqueVoters |-> 0, votedUsers |-> <<>>, v |-> 0,
   optionsRev |-> 0, createdBy |-> 1, createdAt |-> 0, isPublic |-> TRUE,
   anonymousVoting |-> FALSE, showResultsBeforeEnd |-> FALSE,
   showResultsAfterVoting |-> TRUE]

\* the accounts: the poll's creator, an admin (part_002 201-205), and voters
InitialUsers ==
  [u \in Users |-> [role |-> IF u = 1 THEN "admin" ELSE "voter", isActive |-> TRUE]]

IdleReq ==
  [kind |-> "none", pc |-> "idle", user |-> 0, opt |-> 0, vote |-> 0,
   poll |-> AbsentPoll, usnap |-> 0, others |-> 0, res |-> "none",
   saved |-> 0, emitted |-> 0, pct |-> [i \in Opt |-> NumberZero],
   voterName |-> 0, votes |-> {}, role |-> "none",
   target |-> [role |-> "none", isActive |-> FALSE]]

NoTrk == [phase |-> "none", slot |-> 0, vote |-> 0, pre |-> Counters(AbsentPoll)]

Quiet(p) == \A q \in Slots \ {p} : req[q].pc \in {"idle", "done"}

Done(r, res) == [r EXCEPT !.pc = "done", !.res = res, !.poll = AbsentPoll,
                          !.usnap = 0, !.others = 0]

\* a freshly created poll: Poll.js defaults, settings from the creator
Init ==
  /\ \E st \in {"active", "inactive"}, m \in 1..MaxQuota :
       poll = [AbsentPoll EXCEPT !.exists = TRUE, !.status = st,
                                 !.maxVotesPerUser = m]
  /\ ledger = {}
  /\ votedPolls = [u \in Users |-> 0]
  /\ now = 0
  /\ nextVote = 1
  /\ ops = 0
  /\ req = [p \in Slots |-> IdleReq]
  /\ trk = NoTrk
  /\ users = InitialUsers

\* ------------------------------------------------------------- CastVote
\* part_000 5-29: authenticateToken admits an active account
authenticated(u) == users[u].isActive

\* votes.js 14-18: authenticateToken loads req.user, requireVoter admits
\* both roles; validateVote admits any integer optionIndex >= 0
CastBegin(p, u, i) ==
  /\ req[p].pc = "idle"
  /\ ops < MaxOps
  /\ ops' = ops + 1
  /\ req' = IF authenticated(u)
            THEN [req EXCEPT ![p] = [IdleReq EXCEPT !.kind = "cast", !.pc = "cast_load",
                                       !.user = u, !.opt = i,
                                       !.usnap = votedPolls[u]]]
            ELSE [req EXCEPT ![p] = Done([IdleReq EXCEPT !.kind = "cast", !.user = u,
                                                         !.opt = i],
                                         "Account is deactivated")]
  /\ trk' = IF Quiet(p) /\ authenticated(u)
            THEN [phase |-> "casting", slot |-> p, vote |-> 0, pre |-> Counters(poll)]
            ELSE NoTrk
  /\ UNCHANGED <<users, poll, ledger, votedPolls, now, nextVote>>

\* votes.js 21-24: Poll.findById
CastLoadPoll(p) ==
  /\ req[p].pc = "cast_load"
  /\ IF poll.exists
     THEN req' = [req EXCEPT ![p].pc = "cast_vote", ![p].poll = poll]
     ELSE req' = [req EXCEPT ![p] = Done(@, "Poll not found")]
  /\ trk' = IF poll.exists \/ trk.slot # p THEN trk ELSE NoTrk
  /\ UNCHANGED <<users, poll, ledger, votedPolls, now, nextVote, ops>>

\* votes.js 26-38 with Poll.js 222-246: eligibility, option index, addVote
\* and its save
CastAddVote(p) ==
  LET r == req[p]
      why == canUserVote(r.poll, r.user, now)
      loc == preSave(addVote(r.poll, r.user, r.opt), now)
  IN /\ r.pc = "cast_vote"
     /\ IF why # "ok"
        THEN /\ req' = [req EXCEPT ![p] = Done(@, why)]
             /\ poll' = poll
        ELSE IF ~validOption(r.poll, r.opt)
        THEN /\ req' = [req EXCEPT ![p] = Done(@, "Invalid option selected")]
             /\ poll' = poll
        ELSE IF ~versionOk(poll, r.poll)
        THEN /\ req' = [req EXCEPT ![p] = Done(@, "VersionError")]
             /\ poll' = poll
        ELSE /\ poll' = saveAddVote(poll, r.poll, loc, r.user, r.opt)
             /\ req' = [req EXCEPT ![p].pc = "cast_ledger",
                                   ![p].poll = [loc EXCEPT !.v = @ + 1],
                                   ![p].saved = loc.totalVotes]
     /\ trk' = IF trk.slot = p /\ req'[p].pc = "done" THEN NoTrk ELSE trk
     /\ UNCHANGED <<users, ledger, votedPolls, now, nextVote, ops>>

\* votes.js 41-56: new Vote(...).save()
CastVoteSave(p) ==
  /\ req[p].pc = "cast_ledger"
  /\ ledger' = ledger \cup {[id |-> nextVote, userId |-> req[p].user,
                             optionIndex |-> req[p].opt,
                             isAnonymous |-> req[p].poll.anonymousVoting]}
  /\ nextVote' = nextVote + 1
  /\ req' = [req EXCEPT ![p].pc = "cast_history", ![p].vote = nextVote]
  /\ trk' = IF trk.slot = p /\ trk.phase = "casting"
            THEN [trk EXCEPT !.vote = nextVote] ELSE trk
  /\ UNCHANGED <<users, poll, votedPolls, now, ops>>

\* votes.js 58-84 with server.js 323-329: addVotedPoll, the emits, 201
CastAddVotedPoll(p) ==
  /\ req[p].pc = "cast_history"
  /\ votedPolls' = IF ~hasVotedForPoll(req[p].usnap)
                   THEN [votedPolls EXCEPT ![req[p].user] = @ + 1]
                   ELSE votedPolls
  /\ req' = [req EXCEPT ![p] = [Done(@, "Vote cast successfully")
                                  EXCEPT !.emitted = emittedTotalVotes(req[p].poll),
                                         !.voterName = emittedVoterName(req[p].user)]]
  /\ trk' = IF trk.slot = p /\ trk.phase = "casting"
            THEN [trk EXCEPT !.phase = "cast"] ELSE trk
  /\ UNCHANGED <<users, poll, ledger, now, nextVote, ops>>

\* votes.js 56, 85-88: vote.save() rejects (persistence error); the catch
\* answers 500 and undoes nothing
CastVoteSaveFails(p) ==
  /\ req[p].pc = "cast_ledger"
  /\ req' = [req EXCEPT ![p] = Done(@, "Server error casting vote")]
  /\ trk' = IF trk.slot = p /\ trk.phase = "casting"
            THEN [trk EXCEPT !.phase = "failed"] ELSE trk
  /\ UNCHANGED <<users, poll, ledger, votedPolls, now, nextVote, ops>>

\* votes.js 59, 85-88 with server.js 326: the save of addVotedPoll rejects
CastAddVotedPollFails(p) ==
  /\ req[p].pc = "cast_history"
  /\ ~hasVotedForPoll(req[p].usnap)
  /\ req' = [req EXCEPT ![p] = Done(@, "Server error casting vote")]
  /\ trk' = IF trk.slot = p /\ trk.phase = "casting"
            THEN [trk EXCEPT !.phase = "failed"] ELSE trk
  /\ UNCHANGED <<users, poll, ledger, votedPolls, now, nextVote, ops>>

\* votes.js 59-74, 85-88: addVotedPoll succeeds, then emitNewVote or
\* emitPollUpdate throws inside the try block: the catch answers 500
CastEmitThrows(p) ==
  /\ req[p].pc = "cast_history"
  /\ votedPolls' = IF ~hasVotedForPoll(req[p].usnap)
                   THEN [votedPolls EXCEPT ![req[p].user] = @ + 1]
                   ELSE votedPolls
  /\ req' = [req EXCEPT ![p] = Done(@, "emit error")]
  /\ trk' = IF trk.slot = p THEN NoTrk ELSE trk
  /\ UNCHANGED <<users, poll, ledger, now, nextVote, ops>>

\* ----------------------------------------------------------- RetractVote
\* votes.js 225-229: authenticateToken, admin only
RetractBegin(p, role, vid) ==
  /\ req[p].pc = "idle"
  /\ ops < MaxOps
  /\ ops' = ops + 1
  /\ IF role # "admin"
     THEN req' = [req EXCEPT ![p] = [IdleReq EXCEPT !.kind = "retract", !.pc = "done",
                                       !.vote = vid, !.res = "Admin access required"]]
     ELSE req' = [req EXCEPT ![p] = [IdleReq EXCEPT !.kind = "retract",
                                       !.pc = "ret_loadvote", !.vote = vid]]
  /\ trk' = IF trk.phase = "cast" /\ trk.vote = vid /\ role = "admin" /\ Quiet(p)
            THEN [trk EXCEPT !.phase = "retracting", !.slot = p]
            ELSE NoTrk
  /\ UNCHANGED <<users, poll, ledger, votedPolls, now, nextVote>>

\* votes.js 231-234: Vote.findById
RetractLoadVote(p) ==
  /\ req[p].pc = "ret_loadvote"
  /\ IF \E x \in ledger : x.id = req[p].vote
     THEN LET x == CHOOSE y \in ledger : y.id = req[p].vote
          IN req' = [req EXCEPT ![p].pc = "ret_loadpoll", ![p].user = x.userId,
                                ![p].opt = x.optionIndex]
     ELSE req' = [req EXCEPT ![p] = Done(@, "Vote not found")]
  /\ trk' = IF trk.slot = p /\ req'[p].pc = "done" THEN NoTrk ELSE trk
  /\ UNCHANGED <<users, poll, ledger, votedPolls, now, nextVote, ops>>

\* votes.js 237-238: Poll.findById; an absent poll skips to line 270
RetractLoadPoll(p) ==
  /\ req[p].pc = "ret_loadpoll"
  /\ req' = [req EXCEPT ![p].pc = IF poll.exists THEN "ret_count" ELSE "ret_recount",
                        ![p].poll = poll]
  /\ UNCHANGED <<users, poll, ledger, votedPolls, now, nextVote, ops, trk>>

\* votes.js 253-257: the user's other votes in this poll
RetractCount(p) ==
  /\ req[p].pc = "ret_count"
  /\ req' = [req EXCEPT ![p].pc = "ret_save",
                        ![p].others = userOtherVotes(ledger, req[p].user, req[p].vote)]
  /\ UNCHANGED <<users, poll, ledger, votedPolls, now, nextVote, ops, trk>>

\* votes.js 240-250, 260-267: the counters are lowered and the poll saved
RetractSavePoll(p) ==
  LET r == req[p]
      loc == preSave(retractVote(r.poll, r.user, r.opt, r.others), now)
  IN /\ r.pc = "ret_save"
     /\ IF versionWhere(r.poll, loc) /\ ~versionOk(poll, r.poll)
        THEN /\ req' = [req EXCEPT ![p] = Done(@, "Server error deleting vote")]
             /\ poll' = poll
        ELSE /\ poll' = savePoll(poll, r.poll, loc)
             /\ req' = [req EXCEPT ![p].pc = "ret_recount", ![p].poll = loc,
                                   ![p].others = 0]
     /\ trk' = IF trk.slot = p /\ req'[p].pc = "done" THEN NoTrk ELSE trk
     /\ UNCHANGED <<users, ledger, votedPolls, now, nextVote, ops>>

\* votes.js 270-281: the second count; with no other vote the handler
\* evaluates User.findByIdAndUpdate, and votes.js (1-7) never binds User:
\* the ReferenceError is caught at 287 and answered with 500
RetractRecount(p) ==
  /\ req[p].pc = "ret_recount"
  /\ IF userOtherVotes(ledger, req[p].user, req[p].vote) = 0
     THEN req' = [req EXCEPT ![p] = Done(@, "Server error deleting vote")]
     ELSE req' = [req EXCEPT ![p].pc = "ret_delete"]
  /\ trk' = IF trk.slot = p /\ req'[p].pc = "done"
            THEN [trk EXCEPT !.phase = "retracted"] ELSE trk
  /\ UNCHANGED <<users, poll, ledger, votedPolls, now, nextVote, ops>>

\* votes.js 284-286: Vote.findByIdAndDelete, 200
RetractDeleteVote(p) ==
  /\ req[p].pc = "ret_delete"
  /\ ledger' = {x \in ledger : x.id # req[p].vote}
  /\ req' = [req EXCEPT ![p] = Done(@, "Vote deleted successfully")]
  /\ trk' = IF trk.slot = p THEN [trk EXCEPT !.phase = "retracted"] ELSE trk
  /\ UNCHANGED <<users, poll, votedPolls, now, nextVote, ops>>

RetractStepIn(S) ==
  \/ \E p \in S, role \in Roles, vid \in 1..(nextVote - 1) : RetractBegin(p, role, vid)
  \/ \E p \in S : RetractLoadVote(p)
  \/ \E p \in S : RetractLoadPoll(p)
  \/ \E p \in S : RetractCount(p)
  \/ \E p \in S : RetractSavePoll(p)
  \/ \E p \in S : RetractRecount(p)
  \/ \E p \in S : RetractDeleteVote(p)

RetractStep == RetractStepIn(Req)

\* ---------------------------------------------------------- poll deletion
\* DELETE /api/polls/:id, part_002 295: authenticateToken; the caller is an
\* admin or not, the poll's creator or not
DeleteBegin(p, role, owner) ==
  /\ req[p].pc = "idle"
  /\ ops < MaxOps
  /\ ops' = ops + 1
  /\ req' = [req EXCEPT ![p] = [IdleReq EXCEPT !.kind = "delete", !.pc = "del_load",
                                   !.user = IF role = "admin" THEN 1 ELSE 0,
                                   !.opt = IF owner THEN 1 ELSE 0]]
  /\ trk' = NoTrk
  /\ UNCHANGED <<users, poll, ledger, votedPolls, now, nextVote>>

\* part_002 297-320: Poll.findById, permissions, no deletion of a poll with
\* votes unless admin
DeleteLoadPoll(p) ==
  LET admin == req[p].user = 1
      owner == req[p].opt = 1
  IN /\ req[p].pc = "del_load"
     /\ req' = IF ~poll.exists
               THEN [req EXCEPT ![p] = Done(@, "Poll not found")]
               ELSE IF ~admin /\ ~owner
               THEN [req EXCEPT ![p] = Done(@, "Access denied")]
               ELSE IF poll.totalVotes > 0 /\ ~admin
               THEN [req EXCEPT ![p] = Done(@, "Cannot delete poll with existing votes")]
               ELSE [req EXCEPT ![p].pc = "del_poll"]
     /\ UNCHANGED <<users, poll, ledger, votedPolls, now, nextVote, ops, trk>>

\* part_002 322: Poll.findByIdAndDelete
DeletePoll(p) ==
  /\ req[p].pc = "del_poll"
  /\ poll' = AbsentPoll
  /\ req' = [req EXCEPT ![p].pc = "del_votes"]
  /\ UNCHANGED <<users, ledger, votedPolls, now, nextVote, ops, trk>>

\* part_002 325-335: Vote.deleteMany({pollId}), emits, 200; the users'
\* votedPolls are not touched
DeleteVotes(p) ==
  /\ req[p].pc = "del_votes"
  /\ ledger' = {}
  /\ req' = [req EXCEPT ![p] = Done(@, "Poll deleted successfully")]
  /\ UNCHANGED <<users, poll, votedPolls, now, nextVote, ops, trk>>

\* DELETE /api/admin/polls/:id, admin.js 401: authenticateToken, requireAdmin
AdminDeleteBegin(p, role) ==
  /\ req[p].pc = "idle"
  /\ ops < MaxOps
  /\ ops' = ops + 1
  /\ req' = IF role # "admin"
            THEN [req EXCEPT ![p] = [IdleReq EXCEPT !.kind = "admindelete", !.pc = "done",
                                       !.res = "Admin access required"]]
            ELSE [req EXCEPT ![p] = [IdleReq EXCEPT !.kind = "admindelete",
                                       !.pc = "adel_load"]]
  /\ trk' = NoTrk
  /\ UNCHANGED <<users, poll, ledger, votedPolls, now, nextVote>>

\* admin.js 403-415: Poll.findById
AdminDeleteLoadPoll(p) ==
  /\ req[p].pc = "adel_load"
  /\ req' = IF ~poll.exists
            THEN [req EXCEPT ![p] = Done(@, "Poll not found")]
            ELSE [req EXCEPT ![p].pc = "adel_votes"]
  /\ UNCHANGED <<users, poll, ledger, votedPolls, now, nextVote, ops, trk>>

\* admin.js 418: Vote.deleteMany({pollId})
AdminDeleteVotes(p) ==
  /\ req[p].pc = "adel_votes"
  /\ ledger' = {}
  /\ req' = [req EXCEPT ![p].pc = "adel_users"]
  /\ UNCHANGED <<users, poll, votedPolls, now, nextVote, ops, trk>>

\* admin.js 421-424: User.updateMany({votedPolls: pollId}, {$pull:
\* {votedPolls: pollId}}); the elements of votedPolls are {pollId, votedAt}
\* subdocuments (server.js 215-224), none equals the ObjectId: no user
\* matches and nothing is pulled
AdminDeletePullUsers(p) ==
  /\ req[p].pc = "adel_users"
  /\ req' = [req EXCEPT ![p].pc = "adel_poll"]
  /\ UNCHANGED <<users, poll, ledger, votedPolls, now, nextVote, ops, trk>>

\* admin.js 427-439: Poll.findByIdAndDelete, emits, 200
AdminDeletePoll(p) ==
  /\ req[p].pc = "adel_poll"
  /\ poll' = AbsentPoll
  /\ req' = [req EXCEPT ![p] = Done(@, "Poll and all associated data deleted successfully")]
  /\ UNCHANGED <<users, ledger, votedPolls, now, nextVote, ops, trk>>

DeleteStep(S) ==
  \/ \E p \in S, role \in Roles, owner \in BOOLEAN : DeleteBegin(p, role, owner)
  \/ \E p \in S : DeleteLoadPoll(p)
  \/ \E p \in S : DeletePoll(p)
  \/ \E p \in S : DeleteVotes(p)
  \/ \E p \in S, role \in Roles : AdminDeleteBegin(p, role)
  \/ \E p \in S : AdminDeleteLoadPoll(p)
  \/ \E p \in S : AdminDeleteVotes(p)
  \/ \E p \in S : AdminDeletePullUsers(p)
  \/ \E p \in S : AdminDeletePoll(p)

\* ------------------------------------------------------------ poll update
\* PUT /api/polls/:id, part_002 238: authenticateToken; the body carries an
\* options field or not
UpdateBegin(p, role, owner, withOptions) ==
  /\ req[p].pc = "idle"
  /\ ops < MaxOps
  /\ ops' = ops + 1
  /\ req' = [req EXCEPT ![p] = [IdleReq EXCEPT !.kind = "update", !.pc = "put_load",
                                   !.user = IF role = "admin" THEN 1 ELSE 0,
                                   !.opt = IF owner THEN 1 ELSE 0,
                                   !.others = IF withOptions THEN 1 ELSE 0]]
  /\ trk' = NoTrk
  /\ UNCHANGED <<users, poll, ledger, votedPolls, now, nextVote>>

\* part_002 240-261: Poll.findById, permissions, no options once voted
UpdateLoadPoll(p) ==
  LET admin == req[p].user = 1
      owner == req[p].opt = 1
      withOptions == req[p].others = 1
  IN /\ req[p].pc = "put_load"
     /\ req' = IF ~poll.exists
               THEN [req EXCEPT ![p] = Done(@, "Poll not found")]
               ELSE IF ~admin /\ ~owner
               THEN [req EXCEPT ![p] = Done(@, "Access denied")]
               ELSE IF poll.totalVotes > 0 /\ withOptions
               THEN [req EXCEPT ![p] = Done(@, "Cannot modify poll options after voting has started")]
               ELSE [req EXCEPT ![p].pc = "put_update"]
     /\ UNCHANGED <<users, poll, ledger, votedPolls, now, nextVote, ops, trk>>

\* part_002 263-285: Poll.findByIdAndUpdate, unconditional and without __v
UpdatePoll(p) ==
  /\ req[p].pc = "put_update"
  /\ IF ~poll.exists
     THEN /\ req' = [req EXCEPT ![p] = Done(@, "Server error updating poll")]
          /\ poll' = poll
     ELSE /\ req' = [req EXCEPT ![p] = Done(@, "Poll updated successfully")]
          /\ poll' = IF req[p].others = 1 THEN updateOptions(poll) ELSE poll
  /\ UNCHANGED <<users, ledger, votedPolls, now, nextVote, ops, trk>>

UpdateStep(S) ==
  \/ \E p \in S, role \in Roles, owner \in BOOLEAN, withOptions \in BOOLEAN :
        UpdateBegin(p, role, owner, withOptions)
  \/ \E p \in S : UpdateLoadPoll(p)
  \/ \E p \in S : UpdatePoll(p)

\* ---------------------------------------------------------- toggle-status
\* POST /api/polls/:id/toggle-status, part_002 377: authenticateToken
ToggleBegin(p, role, owner) ==
  /\ req[p].pc = "idle"
  /\ ops < MaxOps
  /\ ops' = ops + 1
  /\ req' = [req EXCEPT ![p] = [IdleReq EXCEPT !.kind = "toggle", !.pc = "tog_load",
                                   !.user = IF role = "admin" THEN 1 ELSE 0,
                                   !.opt = IF owner THEN 1 ELSE 0]]
  /\ trk' = NoTrk
  /\ UNCHANGED <<users, poll, ledger, votedPolls, now, nextVote>>

\* part_002 379-388: Poll.findById, permissions
ToggleLoadPoll(p) ==
  /\ req[p].pc = "tog_load"
  /\ req' = IF ~poll.exists
            THEN [req EXCEPT ![p] = Done(@, "Poll not found")]
            ELSE IF req[p].user # 1 /\ req[p].opt # 1
            THEN [req EXCEPT ![p] = Done(@, "Access denied")]
            ELSE [req EXCEPT ![p].pc = "tog_save", ![p].poll = poll]
  /\ UNCHANGED <<users, poll, ledger, votedPolls, now, nextVote, ops, trk>>

\* part_002 391: the status the handler assigns
toggled(st) == IF st = "active" THEN "inactive" ELSE "active"

\* part_002 391-407: the assignment, poll.save() with its pre('save') hook
ToggleSave(p) ==
  LET snap == req[p].poll
      loc == preSave([snap EXCEPT !.status = toggled(snap.status)], now)
  IN /\ req[p].pc = "tog_save"
     /\ IF ~poll.exists
        THEN /\ req' = [req EXCEPT ![p] = Done(@, "Server error toggling poll status")]
             /\ poll' = poll
        ELSE /\ req' = [req EXCEPT ![p] = Done(@, "Poll status updated successfully")]
             /\ poll' = savePoll(poll, snap, loc)
     /\ UNCHANGED <<users, ledger, votedPolls, now, nextVote, ops, trk>>

ToggleStep(S) ==
  \/ \E p \in S, role \in Roles, owner \in BOOLEAN : ToggleBegin(p, role, owner)
  \/ \E p \in S : ToggleLoadPoll(p)
  \/ \E p \in S : ToggleSave(p)

\* ------------------------------------------------------------ poll creation
\* the status field of the body of POST /api/polls
BodyStatus == <<"active", "inactive">>

\* POST /api/polls, part_002 201-207: authenticateToken, requireAdmin,
\* new Poll({...req.body, createdBy})
CreateBegin(p, u, s, m) ==
  /\ req[p].pc = "idle"
  /\ ops < MaxOps
  /\ ~poll.exists
  /\ ops' = ops + 1
  /\ req' = [req EXCEPT ![p] =
       LET r == [IdleReq EXCEPT !.kind = "create", !.user = u, !.opt = s]
       IN IF ~authenticated(u) THEN Done(r, "Account is deactivated")
          ELSE IF users[u].role # "admin" THEN Done(r, "Admin access required")
          ELSE [r EXCEPT !.pc = "create_save",
                         !.poll = [AbsentPoll EXCEPT !.exists = TRUE,
                                                     !.status = BodyStatus[s],
                                                     !.maxVotesPerUser = m,
                                                     !.createdBy = u]]]
  /\ trk' = NoTrk
  /\ UNCHANGED <<users, poll, ledger, votedPolls, now, nextVote>>

\* part_002 208-226: poll.save() with its pre('save') hook, 201
CreateSave(p) ==
  /\ req[p].pc = "create_save"
  /\ ~poll.exists
  /\ poll' = [preSave(req[p].poll, now) EXCEPT !.createdAt = now]
  /\ req' = [req EXCEPT ![p] = Done(@, "Poll created successfully")]
  /\ UNCHANGED <<users, ledger, votedPolls, now, nextVote, ops, trk>>

CreateStep(S) ==
  \/ \E p \in S, u \in Users, s \in DOMAIN BodyStatus, m \in 1..MaxQuota :
        CreateBegin(p, u, s, m)
  \/ \E p \in S : CreateSave(p)

\* ------------------------------------------------------------ vote listing
\* GET /api/votes/poll/:pollId, votes.js 128: authenticateToken
ListBegin(p, role, owner) ==
  /\ req[p].pc = "idle"
  /\ ops < MaxOps
  /\ ops' = ops + 1
  /\ req' = [req EXCEPT ![p] = [IdleReq EXCEPT !.kind = "list", !.pc = "list_load",
                                   !.user = IF role = "admin" THEN 1 ELSE 0,
                                   !.opt = IF owner THEN 1 ELSE 0]]
  /\ trk' = NoTrk
  /\ UNCHANGED <<users, poll, ledger, votedPolls, now, nextVote>>

\* votes.js 130-137: Poll.findById, permissions
ListLoadPoll(p) ==
  /\ req[p].pc = "list_load"
  /\ req' = IF ~poll.exists
            THEN [req EXCEPT ![p] = Done(@, "Poll not found")]
            ELSE IF req[p].user # 1 /\ req[p].opt # 1
            THEN [req EXCEPT ![p] = Done(@, "Access denied")]
            ELSE [req EXCEPT ![p].pc = "list_votes"]
  /\ UNCHANGED <<users, poll, ledger, votedPolls, now, nextVote, ops, trk>>

\* votes.js 139-161: Vote.find and the rows of the answer
ListVotes(p) ==
  /\ req[p].pc = "list_votes"
  /\ req' = [req EXCEPT ![p] = [Done(@, "votes")
                                  EXCEPT !.votes = {voteDetails(x) : x \in ledger}]]
  /\ UNCHANGED <<users, poll, ledger, votedPolls, now, nextVote, ops, trk>>

ListStep(S) ==
  \/ \E p \in S, role \in Roles, owner \in BOOLEAN : ListBegin(p, role, owner)
  \/ \E p \in S : ListLoadPoll(p)
  \/ \E p \in S : ListVotes(p)

\* --------------------------------------------------------- user management
\* part_000 5-48: authenticateToken and requireAdmin for caller a; the
\* request names account t (0 is an id of no account)
adminRequest(p, a, t, kind, role) ==
  LET r == [IdleReq EXCEPT !.kind = kind, !.user = a, !.opt = t, !.role = role]
  IN IF ~authenticated(a) THEN Done(r, "Account is deactivated")
     ELSE IF users[a].role # "admin" THEN Done(r, "Admin access required")
     ELSE [r EXCEPT !.pc = "user_load"]

\* admin.js 200-209, 241-250, 274-283: User.findById and the refusal to act
\* on the caller's own account
UserLoad(p) ==
  LET t == req[p].opt
      refusal == IF req[p].kind = "user_toggle" THEN "Cannot deactivate your own account"
                 ELSE IF req[p].kind = "user_role" THEN "Cannot change your own role"
                 ELSE "Cannot delete your own account"
  IN /\ req[p].pc = "user_load"
     /\ req' = IF t \notin Users
               THEN [req EXCEPT ![p] = Done(@, "User not found")]
               ELSE IF t = req[p].user
               THEN [req EXCEPT ![p] = Done(@, refusal)]
               ELSE [req EXCEPT ![p].pc = "user_save", ![p].target = users[t]]
     /\ UNCHANGED <<users, poll, ledger, votedPolls, now, nextVote, ops, trk>>

\* user.save(): $set of the modified paths of the loaded document
saveUser(db, snap, loc) ==
  [role |-> IF loc.role # snap.role THEN loc.role ELSE db.role,
   isActive |-> IF loc.isActive # snap.isActive THEN loc.isActive ELSE db.isActive]

\* PUT /api/admin/users/:id/toggle-status, admin.js 198
UserToggleBegin(p, a, t) ==
  /\ req[p].pc = "idle"
  /\ ops < MaxOps
  /\ ops' = ops + 1
  /\ req' = [req EXCEPT ![p] = adminRequest(p, a, t, "user_toggle", "none")]
  /\ trk' = NoTrk
  /\ UNCHANGED <<users, poll, ledger, votedPolls, now, nextVote>>

\* admin.js 211-222: user.isActive = !user.isActive, save
UserToggleSave(p) ==
  LET snap == req[p].target
  IN /\ req[p].pc = "user_save" /\ req[p].kind = "user_toggle"
     /\ users' = [users EXCEPT ![req[p].opt] =
                    saveUser(@, snap, [snap EXCEPT !.isActive = ~snap.isActive])]
     /\ req' = [req EXCEPT ![p] = Done(@, IF snap.isActive
                                          THEN "User deactivated successfully"
                                          ELSE "User activated successfully")]
     /\ UNCHANGED <<poll, ledger, votedPolls, now, nextVote, ops, trk>>

\* PUT /api/admin/users/:id/role, admin.js 232-239: the body's role is one
\* of the two roles
UserRoleBegin(p, a, t, role) ==
  /\ req[p].pc = "idle"
  /\ ops < MaxOps
  /\ ops' = ops + 1
  /\ req' = [req EXCEPT ![p] = adminRequest(p, a, t, "user_role", role)]
  /\ trk' = NoTrk
  /\ UNCHANGED <<users, poll, ledger, votedPolls, now, nextVote>>

\* admin.js 252-263: user.role = role, save
UserRoleSave(p) ==
  LET snap == req[p].target
  IN /\ req[p].pc = "user_save" /\ req[p].kind = "user_role"
     /\ users' = [users EXCEPT ![req[p].opt] =
                    saveUser(@, snap, [snap EXCEPT !.role = req[p].role])]
     /\ req' = [req EXCEPT ![p] = Done(@, "User role updated successfully")]
     /\ UNCHANGED <<poll, ledger, votedPolls, now, nextVote, ops, trk>>

\* DELETE /api/admin/users/:id, admin.js 272
UserDeleteBegin(p, a, t) ==
  /\ req[p].pc = "idle"
  /\ ops < MaxOps
  /\ ops' = ops + 1
  /\ req' = [req EXCEPT ![p] = adminRequest(p, a, t, "user_delete", "none")]
  /\ trk' = NoTrk
  /\ UNCHANGED <<users, poll, ledger, votedPolls, now, nextVote>>

\* admin.js 285-289: user.isActive = false, save
UserDeleteSave(p) ==
  LET snap == req[p].target
  IN /\ req[p].pc = "user_save" /\ req[p].kind = "user_delete"
     /\ users' = [users EXCEPT ![req[p].opt] =
                    saveUser(@, snap, [snap EXCEPT !.isActive = FALSE])]
     /\ req' = [req EXCEPT ![p] = Done(@, "User deleted successfully")]
     /\ UNCHANGED <<poll, ledger, votedPolls, now, nextVote, ops, trk>>

UserStep(S) ==
  \/ \E p \in S, a \in Users, t \in 0..NUsers : UserToggleBegin(p, a, t)
  \/ \E p \in S, a \in Users, t \in 0..NUsers, role \in Roles : UserRoleBegin(p, a, t, role)
  \/ \E p \in S, a \in Users, t \in 0..NUsers : UserDeleteBegin(p, a, t)
  \/ \E p \in S : UserLoad(p)
  \/ \E p \in S : UserToggleSave(p)
  \/ \E p \in S : UserRoleSave(p)
  \/ \E p \in S : UserDeleteSave(p)

\* --------------------------------------------------------------- reads
\* GET /api/polls/:id, part_002 165: optionalAuth
GetBegin(p, viewer) ==
  /\ req[p].pc = "idle"
  /\ ops < MaxOps
  /\ ops' = ops + 1
  /\ req' = [req EXCEPT ![p] = [IdleReq EXCEPT !.kind = "get", !.pc = "get_load",
                                   !.opt = IF viewer = "admin" THEN 2
                                           ELSE IF viewer = "voter" THEN 1 ELSE 0]]
  /\ trk' = NoTrk
  /\ UNCHANGED <<users, poll, ledger, votedPolls, now, nextVote>>

\* part_002 167-177: Poll.findById, private polls are for admins
GetLoadPoll(p) ==
  /\ req[p].pc = "get_load"
  /\ req' = IF ~poll.exists
            THEN [req EXCEPT ![p] = Done(@, "Poll not found")]
            ELSE IF ~poll.isPublic /\ req[p].opt # 2
            THEN [req EXCEPT ![p] = Done(@, "Access denied to private poll")]
            ELSE [req EXCEPT ![p].pc = "get_save", ![p].poll = poll]
  /\ UNCHANGED <<users, poll, ledger, votedPolls, now, nextVote, ops, trk>>

\* part_002 179-191: views += 1, poll.save() with its pre('save') hook, and
\* the answer poll.toObject(), whose status is the one the hook left
GetSave(p) ==
  LET snap == req[p].poll
      loc == preSave(snap, now)
  IN /\ req[p].pc = "get_save"
     /\ IF ~poll.exists
        THEN /\ req' = [req EXCEPT ![p] = Done(@, "Server error fetching poll")]
             /\ poll' = poll
        ELSE /\ req' = [req EXCEPT ![p] = Done(@, loc.status)]
             /\ poll' = savePoll(poll, snap, loc)
     /\ UNCHANGED <<users, ledger, votedPolls, now, nextVote, ops, trk>>

\* GET /api/polls/:id/results, part_002 345: optionalAuth
ResultsBegin(p, viewer, u) ==
  /\ req[p].pc = "idle"
  /\ ops < MaxOps
  /\ ops' = ops + 1
  /\ req' = [req EXCEPT ![p] = [IdleReq EXCEPT !.kind = "results", !.pc = "res_load",
                                   !.user = u,
                                   !.opt = IF viewer = "admin" THEN 2
                                           ELSE IF viewer = "voter" THEN 1 ELSE 0]]
  /\ trk' = NoTrk
  /\ UNCHANGED <<users, poll, ledger, votedPolls, now, nextVote>>

\* part_002 347-367 with Poll.js 249-266: Poll.findById, canViewResults,
\* poll.getResults()
ResultsLoad(p) ==
  LET viewer == IF req[p].opt = 2 THEN "admin"
                ELSE IF req[p].opt = 1 THEN "voter" ELSE "anonymous"
  IN /\ req[p].pc = "res_load"
     /\ req' = IF ~poll.exists
               THEN [req EXCEPT ![p] = Done(@, "Poll not found")]
               ELSE IF ~canViewResults(poll, viewer, req[p].user, now)
               THEN [req EXCEPT ![p] = Done(@, "Results not available yet")]
               ELSE [req EXCEPT ![p] = [Done(@, getResultsStatus(poll, now))
                                          EXCEPT !.pct = [i \in Opt |-> percentage(poll, i)]]]
     /\ UNCHANGED <<users, poll, ledger, votedPolls, now, nextVote, ops, trk>>

ReadStep(S) ==
  \/ \E p \in S, viewer \in Viewers : GetBegin(p, viewer)
  \/ \E p \in S : GetLoadPoll(p)
  \/ \E p \in S : GetSave(p)
  \/ \E p \in S, viewer \in Viewers, u \in Users : ResultsBegin(p, viewer, u)
  \/ \E p \in S : ResultsLoad(p)

ResultsStep(S) ==
  \/ \E p \in S, viewer \in Viewers, u \in Users : ResultsBegin(p, viewer, u)
  \/ \E p \in S : ResultsLoad(p)

\* the response has been sent: the slot serves the next request
Respond(p) ==
  /\ req[p].pc = "done"
  /\ req' = [req EXCEPT ![p] = IdleReq]
  /\ UNCHANGED <<users, poll, ledger, votedPolls, now, nextVote, ops, trk>>

\* new Date() advances
Tick ==
  /\ now < MaxTime
  /\ now' = now + 1
  /\ UNCHANGED <<users, poll, ledger, votedPolls, nextVote, ops, req, trk>>

CastStep(S) ==
  \/ \E p \in S, u \in Users, i \in 0..NOpt : CastBegin(p, u, i)
  \/ \E p \in S : CastLoadPoll(p)
  \/ \E p \in S : CastAddVote(p)
  \/ \E p \in S : CastVoteSave(p)
  \/ \E p \in S : CastAddVotedPoll(p)

Next ==
  \/ CastStep(Req)
  \/ RetractStep
  \/ \E p \in Req : Respond(p)
  \/ Tick

Spec == Init /\ [][Next]_vars

\* casts whose writes after addVote, or whose emits, can fail
CastFailStep(S) ==
  \/ \E p \in S : CastVoteSaveFails(p)
  \/ \E p \in S : CastAddVotedPollFails(p)
  \/ \E p \in S : CastEmitThrows(p)

\* NCast concurrent casts, one per slot, against a fresh poll inside its
\* voting window
InitCast ==
  /\ \E m \in 1..MaxQuota :
       poll = [AbsentPoll EXCEPT !.exists = TRUE, !.maxVotesPerUser = m]
  /\ ledger = {}
  /\ votedPolls = [u \in Users |-> 0]
  /\ now = 1
  /\ nextVote = 1
  /\ ops = 0
  /\ req = [p \in Slots |-> IdleReq]
  /\ trk = NoTrk
  /\ users = InitialUsers

NextCast == CastStep(CastReq)

SpecCast == InitCast /\ [][NextCast]_vars

\* ---------------------------------------------------------------- claims
Quiescent == \A p \in Slots : req[p].pc \in {"idle", "done"}

Accepted(p) ==
  \/ req[p].pc \in {"cast_ledger", "cast_history"}
  \/ req[p].pc = "done" /\ req[p].res = "Vote cast successfully"

VoterRecords(d, i) == SumOver(d.voters[i], Users)

\* the poll's voting window, as the specification states it
InWindow(d, t) == d.status = "active" /\ d.startDate <= t /\ t < d.endDate

\* C1: in every state a reader can observe, the poll's totalVotes equals
\* the sum of the votes counters of its options.
C1_TotalVotesIsSum == poll.totalVotes = SumOver(poll.votes, Opt)

\* C2: NCast concurrent casts by distinct users against a fresh active poll
\* with maxVotesPerUser = 1 leave totalVotes = NCast and uniqueVoters =
\* NCast once all of them have succeeded.
C2_NoLostUpdate ==
  ( /\ poll.maxVotesPerUser = 1
    /\ \A p \in CastReq : req[p].pc = "done" /\ Accepted(p)
    /\ \A p, q \in CastReq : p # q => req[p].user # req[q].user )
  => poll.totalVotes = NCast /\ poll.uniqueVoters = NCast

C2_Witness ==
  /\ poll.maxVotesPerUser = 1
  /\ \A p \in CastReq : req[p].pc = "done" /\ Accepted(p)
  /\ \A p, q \in CastReq : p # q => req[p].user # req[q].user

\* C3: with maxVotesPerUser = 1, of the concurrent casts of one user at most
\* one is accepted, and the ledger holds at most one vote of that user.
C3_OneCastPerUser ==
  poll.maxVotesPerUser = 1 =>
    \A u \in Users :
      /\ Cardinality({p \in CastReq : req[p].user = u /\ Accepted(p)}) <= 1
      /\ LedgerCount(u) <= 1

C3_Witness ==
  /\ poll.maxVotesPerUser = 1
  /\ \E p, q \in CastReq :
       /\ p # q /\ req[p].user = req[q].user
       /\ req[p].pc = "done" /\ Accepted(p)
       /\ req[q].pc = "done" /\ req[q].res = "VersionError"

\* C4: a cast on an active poll by a user whose accepted votes in the
\* ledger have reached maxVotesPerUser is rejected with 'Maximum votes per
\* user reached' and changes no counter.
C4_QuotaReachedRejected ==
  [][\A p \in Slots :
       ( /\ req[p].pc = "cast_vote"
         /\ req'[p].pc # "cast_vote"
         /\ InWindow(req[p].poll, now)
         /\ LedgerCount(req[p].user) >= poll.maxVotesPerUser )
       => ( /\ req'[p].res = "Maximum votes per user reached"
            /\ Counters(poll') = Counters(poll) )]_vars

\* C5: after any sequence of completed casts and retractions no user has
\* more ledger votes in the poll than maxVotesPerUser.
C5_LedgerWithinQuota ==
  Quiescent => \A u \in Users : LedgerCount(u) <= poll.maxVotesPerUser

\* C6: after any sequence of casts and retractions a user is in votedUsers
\* iff the ledger holds at least one vote of that user.
C6_VotedUsersIffLedger ==
  Quiescent => \A u \in Users : includes(poll.votedUsers, u) <=> LedgerCount(u) >= 1

\* C7: uniqueVoters equals the number of distinct user ids in votedUsers.
C7_UniqueVotersIsSize ==
  poll.uniqueVoters = Cardinality(Distinct(poll.votedUsers))

\* C8: every option's votes counter equals the number of its voter records.
C8_VotesIsVoterRecords ==
  \A i \in Opt : poll.votes[i] = VoterRecords(poll, i)

\* C9: after a successful cast immediately followed by the retraction of
\* that vote, totalVotes, uniqueVoters and every option's votes are what
\* they were before the cast.
C9_RetractReversesCast ==
  trk.phase = "retracted" => Counters(poll) = trk.pre

\* C10: a cast on a poll that is not active (before startDate, at or after
\* endDate, or status other than 'active') fails with 'Poll is not active'
\* and leaves poll, ledger and user history unchanged.
C10_InactivePollRejected ==
  [][\A p \in Slots :
       ( /\ req[p].pc = "cast_vote"
         /\ req'[p].pc # "cast_vote"
         /\ ~InWindow(req[p].poll, now) )
       => ( /\ req'[p].pc = "done"
            /\ req'[p].res = "Poll is not active"
            /\ poll' = poll /\ ledger' = ledger /\ votedPolls' = votedPolls )]_vars

C10_Witness ==
  \E p \in Slots :
    /\ req[p].kind = "cast" /\ req[p].res = "Poll is not active"
    /\ poll.status = "active" /\ poll.endDate < now

\* casts with failing writes and emits, against a fresh poll inside its
\* voting window
NextFail ==
  \/ CastStep(Req)
  \/ CastFailStep(Req)
  \/ \E p \in Req : Respond(p)

SpecFail == InitCast /\ [][NextFail]_vars

\* C11: a cast whose ledger append or user-history write fails after
\* addVote has persisted the counters is reported as failed and leaves the
\* poll's counters as they were before the call.
C11_FailedCastRollsBack ==
  trk.phase = "failed" => Counters(poll) = trk.pre

\* C16: when the emit throws after the poll, ledger and history writes of a
\* cast have succeeded, the cast is still answered as successful.
C16_EmitFailureKeepsSuccess ==
  [][\A p \in Slots :
       ( /\ req[p].pc = "cast_history"
         /\ req'[p].pc = "done"
         /\ (hasVotedForPoll(req[p].usnap) \/ votedPolls' # votedPolls) )
       => req'[p].res = "Vote cast successfully"]_vars

\* C17: the totalVotes carried by the events of a successful cast equals
\* the poll's persisted totalVotes after that cast.
C17_EmittedTotalIsPersisted ==
  \A p \in Slots :
    (req[p].pc = "done" /\ req[p].res = "Vote cast successfully")
      => req[p].emitted = req[p].saved

\* casts and poll deletions (both routes) on a poll inside its voting window
NextDelete ==
  \/ CastStep(Req)
  \/ DeleteStep(Req)
  \/ \E p \in Req : Respond(p)

SpecDelete == InitCast /\ [][NextDelete]_vars

\* C12: a retraction by an admin of an existing vote whose poll exists
\* answers success, the ledger no longer holds the vote and, when the user
\* has no other vote in the poll, the user's history has no entry for it.
C12_RetractSucceeds ==
  \A p \in Slots :
    ( /\ req[p].kind = "retract" /\ req[p].pc = "done"
      /\ req[p].res \notin {"Admin access required", "Vote not found"} )
    => ( /\ req[p].res = "Vote deleted successfully"
         /\ ~\E x \in ledger : x.id = req[p].vote
         /\ (LedgerCount(req[p].user) = 0 => votedPolls[req[p].user] = 0) )

\* C13: a cast that meets an absent poll or names an option index outside
\* the option list is rejected and changes neither poll, ledger nor history.
C13_RejectionBeforeMutation ==
  [][\A p \in Slots :
       /\ ( /\ req[p].pc = "cast_load" /\ req'[p].pc # "cast_load"
            /\ ~poll.exists )
          => ( /\ req'[p].pc = "done" /\ req'[p].res = "Poll not found"
               /\ poll' = poll /\ ledger' = ledger /\ votedPolls' = votedPolls )
       /\ ( /\ req[p].pc = "cast_vote" /\ req'[p].pc # "cast_vote"
            /\ req[p].opt \notin Opt )
          => ( /\ req'[p].pc = "done"
               /\ req'[p].res \in {"Invalid option selected", "Poll is not active",
                                   "Maximum votes per user reached"}
               /\ poll' = poll /\ ledger' = ledger /\ votedPolls' = votedPolls )]_vars

C13_Witness ==
  \E p \in Slots :
    /\ req[p].kind = "cast" /\ req[p].pc = "done"
    /\ req[p].res = "Invalid option selected"
    /\ poll.totalVotes > 0 /\ ledger # {}

\* C15: after any sequence of casts, retractions and poll deletions a user's
\* history has an entry for the poll iff the ledger holds a vote of that
\* user for it.
C15_HistoryIffLedger ==
  Quiescent => \A u \in Users : votedPolls[u] > 0 <=> LedgerCount(u) >= 1

\* C18: totalVotes, uniqueVoters and every option's votes are never
\* negative, also after repeated or failed retractions.
C18_CountersNonNegative ==
  /\ poll.totalVotes >= 0
  /\ poll.uniqueVoters >= 0
  /\ \A i \in Opt : poll.votes[i] >= 0

C18_Witness ==
  \E p \in Slots :
    /\ req[p].kind = "retract" /\ req[p].pc = "ret_recount"
    /\ ops = 3 /\ nextVote = 2
    /\ poll.totalVotes = 0 /\ ledger # {}

\* one cast and one poll update in flight together, on a fresh poll
NextUpdate ==
  \/ CastStep(CastReq)
  \/ UpdateStep(CastReq)

SpecUpdate == InitCast /\ [][NextUpdate]_vars

\* reads of the poll and of its results while the clock runs through the
\* poll's window, with casts
NextLife ==
  \/ CastStep(Req)
  \/ ReadStep(Req)
  \/ \E p \in Req : Respond(p)
  \/ Tick

SpecLife == Init /\ [][NextLife]_vars

\* the effective status of section 4.4 of the specification
EffectiveStatus(d, t) ==
  IF d.status # "active" THEN d.status
  ELSE IF t < d.startDate THEN "draft"
  ELSE IF t >= d.endDate THEN "completed"
  ELSE "active"

\* C14: once the poll has totalVotes > 0 its option list never changes,
\* whatever the interleaving of an update with a cast.
C14_OptionsFrozenOnceVoted ==
  [][poll.totalVotes > 0 => poll'.optionsRev = poll.optionsRev]_vars

\* C19: GET /api/polls/:id of a poll stored as 'active' yields 'draft'
\* before startDate, 'completed' from endDate on (now = endDate included)
\* and 'active' in between.
C19_ReadYieldsEffectiveStatus ==
  [][\A p \in Slots :
       ( /\ req[p].pc = "get_save" /\ req'[p].pc = "done"
         /\ poll.exists /\ req[p].poll.status = "active" )
       => req'[p].res = EffectiveStatus(req[p].poll, now)]_vars

\* C20: the status reported by GetResults is the poll's effective status,
\* computed from the clock and the stored dates.
C20_ResultsReportEffectiveStatus ==
  [][\A p \in Slots :
       ( /\ req[p].pc = "res_load" /\ req'[p].pc = "done"
         /\ req'[p].res \notin {"Poll not found", "Results not available yet"} )
       => req'[p].res = EffectiveStatus(poll, now)]_vars

\* the poll, ledger and histories that the casts of a tally leave behind:
\* voters[i][u] casts of user u on option i, every user within the quota
Tallied(m, voters) ==
  LET cnt(u) == SumOver([i \in Opt |-> voters[i][u]], Opt)
      voted == {u \in Users : cnt(u) > 0}
      total == SumOver([u \in Users |-> cnt(u)], Users)
  IN /\ poll = [AbsentPoll EXCEPT
                  !.exists = TRUE, !.maxVotesPerUser = m,
                  !.voters = voters,
                  !.votes = [i \in Opt |-> SumOver(voters[i], Users)],
                  !.totalVotes = total,
                  !.uniqueVoters = Cardinality(voted),
                  !.votedUsers = SelectSeq([k \in 1..NUsers |-> k],
                                           LAMBDA u : u \in voted),
                  !.v = total]
     /\ ledger = UNION {{[id |-> ((u - 1) * NOpt + i) * MaxQuota + k,
                          userId |-> u, optionIndex |-> i,
                          isAnonymous |-> FALSE] :
                           k \in 1..voters[i][u]} : u \in Users, i \in Opt}
     /\ nextVote = NUsers * NOpt * MaxQuota + 1
     /\ votedPolls = [u \in Users |-> IF u \in voted THEN 1 ELSE 0]

\* a poll inside its window after any number of sequential casts
InitResults ==
  /\ \E m \in 1..MaxQuota, voters \in [Opt -> [Users -> 0..MaxQuota]] :
       /\ \A u \in Users : SumOver([i \in Opt |-> voters[i][u]], Opt) <= m
       /\ Tallied(m, voters)
  /\ now = 1
  /\ ops = 0
  /\ req = [p \in Slots |-> IdleReq]
  /\ trk = NoTrk
  /\ users = InitialUsers

NextResults ==
  \/ ResultsStep(Req)
  \/ \E p \in Req : Respond(p)
  \/ Tick

SpecResults == InitResults /\ [][NextResults]_vars

\* a served results request
ResultsServed(r) ==
  /\ r.kind = "results" /\ r.pc = "done"
  /\ r.res \notin {"Poll not found", "Results not available yet"}

\* C21: the percentage of each option in GetResults is a two-decimal string
\* nearest to votes/totalVotes*100 ("75.00" and "25.00" for 3 and 1 votes
\* of 4), and the number 0 for every option when totalVotes = 0.
C21_PercentageRounded ==
  [][\A p \in Slots :
       (req[p].pc = "res_load" /\ ResultsServed(req'[p])) =>
         \A i \in Opt :
           LET r == req'[p].pct[i]
               h == r.int * 100 + r.frac
           IN IF poll.totalVotes = 0
              THEN r = [str |-> FALSE, int |-> 0, frac |-> 0]
              ELSE /\ r.str /\ r.frac \in 0..99
                   /\ 2 * (h * poll.totalVotes - 10000 * poll.votes[i]) <= poll.totalVotes
                   /\ 2 * (10000 * poll.votes[i] - h * poll.totalVotes) < poll.totalVotes]_vars

C21_Witness ==
  \E p \in Slots :
    /\ ResultsServed(req[p])
    /\ poll.totalVotes = 4
    /\ \E i, j \in Opt :
         /\ poll.votes[i] = 3 /\ poll.votes[j] = 1
         /\ req[p].pct[i] = [str |-> TRUE, int |-> 75, frac |-> 0]
         /\ req[p].pct[j] = [str |-> TRUE, int |-> 25, frac |-> 0]

\* casts on a private poll created by user 1, an admin
InitPrivate ==
  /\ \E m \in 1..MaxQuota :
       poll = [AbsentPoll EXCEPT !.exists = TRUE, !.maxVotesPerUser = m,
                                 !.isPublic = FALSE]
  /\ ledger = {}
  /\ votedPolls = [u \in Users |-> 0]
  /\ now = 1
  /\ nextVote = 1
  /\ ops = 0
  /\ req = [p \in Slots |-> IdleReq]
  /\ trk = NoTrk
  /\ users = InitialUsers

NextPrivate ==
  \/ CastStep(Req)
  \/ \E p \in Req : Respond(p)
  \/ Tick

SpecPrivate == InitPrivate /\ [][NextPrivate]_vars

\* C22: a cast on a poll with isPublic = false is accepted only from the
\* poll's creator or from an admin.
C22_PrivateCastByOwnerOrAdmin ==
  \A p \in Slots :
    (req[p].kind = "cast" /\ Accepted(p) /\ ~poll.isPublic) =>
      \/ req[p].user = poll.createdBy
      \/ users[req[p].user].role = "admin"

\* C23: a user's history holds at most one entry for the poll, whatever the
\* number of that user's successful casts, concurrent ones included.
C23_HistoryOneEntryPerPoll == \A u \in Users : votedPolls[u] <= 1

\* one cast and one poll deletion in flight together, on a fresh poll
NextDeleteRace ==
  \/ CastStep(CastReq)
  \/ DeleteStep(CastReq)

SpecDeleteRace == InitCast /\ [][NextDeleteRace]_vars

\* C27: once a poll deletion and a cast on the same poll have both
\* finished, the ledger holds no vote for the deleted poll.
C27_NoVoteForDeletedPoll ==
  (Quiescent /\ ~poll.exists) => ledger = {}

\* retractions and poll deletions in flight together, on a poll that has
\* received casts
NextRetractRace ==
  \/ RetractStepIn(CastReq)
  \/ DeleteStep(CastReq)

SpecRetractRace == InitResults /\ [][NextRetractRace]_vars

\* C24: a retraction that finds its vote and no poll deletes the vote and
\* answers success, leaving the poll's aggregates alone.
C24_OrphanRetractSucceeds ==
  [][\A p \in Slots :
       ( /\ req[p].kind = "retract" /\ req[p].pc \in {"ret_recount", "ret_delete"}
         /\ ~req[p].poll.exists /\ req'[p].pc = "done" )
       => /\ req'[p].res = "Vote deleted successfully"
          /\ ~\E x \in ledger' : x.id = req[p].vote
          /\ Counters(poll') = Counters(poll)]_vars

\* a retraction that was admitted and found its vote
RetractRan(r) ==
  /\ r.kind = "retract" /\ r.pc = "done"
  /\ r.res \notin {"Admin access required", "Vote not found"}

\* C28: two concurrent retractions of the same vote lower totalVotes and
\* the votes of the vote's option by exactly one in total.
C28_TwoRetractsLowerByOne ==
  \A p, q \in Slots :
    ( /\ p # q /\ RetractRan(req[p]) /\ RetractRan(req[q])
      /\ req[p].vote = req[q].vote )
    => LET rest == {x \in ledger : x.id # req[p].vote}
       IN /\ poll.totalVotes = Cardinality(rest)
          /\ poll.votes[req[p].opt] =
               Cardinality({x \in rest : x.optionIndex = req[p].opt})

\* status toggles while the clock runs through the poll's window
NextToggle ==
  \/ ToggleStep(Req)
  \/ \E p \in Req : Respond(p)
  \/ Tick

SpecToggle == Init /\ [][NextToggle]_vars

\* C25: toggle-status turns a stored 'active' into 'inactive' and a stored
\* 'inactive' into 'active', whatever the clock says.
C25_ToggleIsUnconditional ==
  [][\A p \in Slots :
       ( /\ req[p].pc = "tog_save" /\ req'[p].pc = "done" /\ poll.exists )
       => /\ poll.status = "active" => poll'.status = "inactive"
          /\ poll.status = "inactive" => poll'.status = "active"]_vars

\* a poll is created, then casts arrive while the clock runs; each slot
\* serves one request
InitSchedule ==
  /\ poll = AbsentPoll
  /\ ledger = {}
  /\ votedPolls = [u \in Users |-> 0]
  /\ now = 0
  /\ nextVote = 1
  /\ ops = 0
  /\ req = [p \in Slots |-> IdleReq]
  /\ trk = NoTrk
  /\ users = InitialUsers

NextSchedule ==
  \/ CreateStep(CastReq)
  \/ CastStep(CastReq)
  \/ Tick

SpecSchedule == InitSchedule /\ [][NextSchedule]_vars

\* C26: a poll created with status 'active' and a startDate in the future
\* accepts, once startDate <= now < endDate and with no admin action in
\* between, the cast of a user under quota.
C26_ScheduledPollBecomesVotable ==
  [][\A p, q \in Slots :
       ( /\ req[q].kind = "create" /\ req[q].pc = "done"
         /\ req[q].res = "Poll created successfully"
         /\ BodyStatus[req[q].opt] = "active"
         /\ poll.createdAt < poll.startDate
         /\ req[p].pc = "cast_vote" /\ req'[p].pc # "cast_vote"
         /\ poll.startDate <= now /\ now < poll.endDate
         /\ LedgerCount(req[p].user) < poll.maxVotesPerUser
         /\ req[p].opt \in Opt )
       => req'[p].pc = "cast_ledger"]_vars

\* casts and vote listings on a poll whose anonymousVoting setting is on
\* or off
InitAnon ==
  /\ \E m \in 1..MaxQuota, a \in BOOLEAN :
       poll = [AbsentPoll EXCEPT !.exists = TRUE, !.maxVotesPerUser = m,
                                 !.anonymousVoting = a]
  /\ ledger = {}
  /\ votedPolls = [u \in Users |-> 0]
  /\ now = 1
  /\ nextVote = 1
  /\ ops = 0
  /\ req = [p \in Slots |-> IdleReq]
  /\ trk = NoTrk
  /\ users = InitialUsers

NextAnon ==
  \/ CastStep(Req)
  \/ ListStep(Req)
  \/ \E p \in Req : Respond(p)

SpecAnon == InitAnon /\ [][NextAnon]_vars

\* C29: for a vote cast on a poll with anonymousVoting on, the ledger entry
\* has isAnonymous = true, and neither the new_vote event nor the per-poll
\* vote listing carries the voter's name or id.
C29_AnonymousVoteHidesVoter ==
  poll.anonymousVoting =>
    /\ \A x \in ledger : x.isAnonymous
    /\ \A p \in Slots :
         /\ (req[p].kind = "cast" /\ req[p].pc = "done") => req[p].voterName = 0
         /\ (req[p].kind = "list" /\ req[p].pc = "done") =>
              \A row \in req[p].votes : row.voter = 0

\* admin user-management requests in flight together, from any set of
\* accounts with at least one active admin
ActiveAdmins == {u \in Users : users[u].role = "admin" /\ users[u].isActive}

InitAdmins ==
  /\ users \in [Users -> [role : Roles, isActive : BOOLEAN]]
  /\ ActiveAdmins # {}
  /\ poll = [AbsentPoll EXCEPT !.exists = TRUE]
  /\ ledger = {}
  /\ votedPolls = [u \in Users |-> 0]
  /\ now = 1
  /\ nextVote = 1
  /\ ops = 0
  /\ req = [p \in Slots |-> IdleReq]
  /\ trk = NoTrk

NextAdmins ==
  \/ UserStep(CastReq)
  \/ \E p \in CastReq : Respond(p)

SpecAdmins == InitAdmins /\ [][NextAdmins]_vars

\* C30: some active account with role 'admin' exists in every reachable
\* state, under any interleaving of toggle user status, change user role
\* and delete user.
C30_SomeActiveAdmin == ActiveAdmins # {}

====
